---- MODULE Spec2Model ----
(***************************************************************************)
(* Model of weblate/addons/gettext.py: the LINGUAS line editor, the        *)
(* ALL_LINGUAS assignment editor, the POT differ, the manifest parser and  *)
(* the msgmerge / xgettext orchestrators.                                  *)
(*                                                                         *)
(* Text is modelled as a sequence of one-character strings, a line         *)
(* document as a sequence of such lines, a file as one flat character      *)
(* sequence.                                                               *)
(***************************************************************************)
EXTENDS Integers, Sequences, FiniteSets, TLC

\* ------------------------------------------------------------------ bounds
\* Longest LINGUAS file content (in characters) the editor is fed.
MaxFileLen == 6
\* Most lines the configure files hold together when a sync behaviour starts.
MaxConfLines == 2
\* Longest LINGUAS file content (in characters) when a sync behaviour starts.
MaxSyncLen == 3
\* Most sync runs (post_add / daily events) in one behaviour.
MaxRuns == 2
\* Most lines of each of the two template files handed to pot_files_same.
MaxPotLines == 2
\* Most translations of the component msgmerge iterates over.
MaxTranslations == 2

\* ------------------------------------------------------------------ state
VARIABLES
    mode,        \* which component the behaviour exercises
    lines,       \* update_linguas: the line document handed to the first call
    codes,       \* update_linguas: the desired code set
    first,       \* update_linguas: (changed, lines) returned by the first call
    second,      \* update_linguas: (changed, lines) returned by the second call
    stage,       \* update_linguas: number of calls made so far
    fs,          \* the working tree: path -> file content
    present,     \* the paths that exist in the working tree
    addon_commit_files,  \* translation.addon_commit_files
    pushed,      \* the file lists handed to commit_and_push, in call order
    log,         \* one record per finished sync run
    file_a,      \* pot_files_same: content of the first file
    file_b,      \* pot_files_same: content of the second file
    compared,    \* pot_files_same: whether the call was made
    same,        \* pot_files_same: the result of the call
    alert_set,   \* component.alert_set: the names of the pending alerts
    directory,   \* XGettextAddon configuration "directory", "." already mapped to ""
    sources,     \* the source paths that resolve inside the repository
    translations,  \* component.translation_set: one kind per translation
    run,         \* the last finished msgmerge / xgettext run
    lock,        \* component.repository.lock: the process holding it
    procs        \* concurrent sync operations: each process's position and locals

editor_vars == <<lines, first, second, stage>>
sync_vars == <<fs, present, addon_commit_files, pushed, log>>
pot_vars == <<file_a, file_b, compared, same>>
orch_vars == <<alert_set, directory, sources, translations, run>>
lock_vars == <<lock, procs>>
vars == <<mode, codes, editor_vars, sync_vars, pot_vars, orch_vars, lock_vars>>

\* ------------------------------------------------------------ text helpers
NL == "\n"
SPACE == " "
HASH == "#"

\* Characters str.strip() removes when called without arguments (the vertical
\* tab, which has no TLA+ escape, is left out).
Whitespace == {" ", "\t", "\n", "\r", "\f"}

\* Code points of the characters the model uses (Python compares str by them).
ord(c) ==
    CASE c = "\t" -> 9
      [] c = "\n" -> 10
      [] c = "\r" -> 13
      [] c = " " -> 32
      [] c = "\"" -> 34
      [] c = "#" -> 35
      [] c = "a" -> 97
      [] c = "b" -> 98
      [] c = "c" -> 99
      [] OTHER -> 120

Range(s) == {s[i] : i \in 1..Len(s)}

\* All sequences over S of length at most n.
SeqUpTo(S, n) == UNION {[1..k -> S] : k \in 0..n}

\* s.startswith(p), s.endswith(p)
startswith(s, p) == Len(s) >= Len(p) /\ SubSeq(s, 1, Len(p)) = p
endswith(s, p) == Len(s) >= Len(p) /\ SubSeq(s, Len(s) - Len(p) + 1, Len(s)) = p

\* s.lstrip(), s.rstrip(), s.strip() over a character set
RECURSIVE lstrip_chars(_, _)
lstrip_chars(s, chars) ==
    IF s # <<>> /\ Head(s) \in chars THEN lstrip_chars(Tail(s), chars) ELSE s

RECURSIVE rstrip_chars(_, _)
rstrip_chars(s, chars) ==
    IF s # <<>> /\ s[Len(s)] \in chars
    THEN rstrip_chars(SubSeq(s, 1, Len(s) - 1), chars)
    ELSE s

strip(s) == rstrip_chars(lstrip_chars(s, Whitespace), Whitespace)

\* line.split("#", 1)[0]: the text before the first '#'
RECURSIVE split_comment(_)
split_comment(line) ==
    IF line = <<>> \/ Head(line) = HASH THEN <<>>
    ELSE <<Head(line)>> \o split_comment(Tail(line))

\* Python's str "<": lexicographic by code point, a proper prefix is smaller.
RECURSIVE str_less(_, _)
str_less(s, t) ==
    IF t = <<>> THEN FALSE
    ELSE IF s = <<>> THEN TRUE
    ELSE IF Head(s) # Head(t) THEN ord(Head(s)) < ord(Head(t))
    ELSE str_less(Tail(s), Tail(t))

\* sorted(codes)
RECURSIVE sorted(_)
sorted(S) ==
    IF S = {} THEN <<>>
    ELSE LET least == CHOOSE x \in S : \A y \in S \ {x} : str_less(x, y)
         IN <<least>> \o sorted(S \ {least})

\* " ".join(words)
RECURSIVE join(_)
join(words) ==
    IF words = <<>> THEN <<>>
    ELSE IF Len(words) = 1 THEN words[1]
    ELSE words[1] \o <<SPACE>> \o join(Tail(words))

\* handle.readlines(): the content cut after every newline
RECURSIVE readlines_from(_, _)
readlines_from(content, cur) ==
    IF content = <<>> THEN (IF cur = <<>> THEN <<>> ELSE <<cur>>)
    ELSE IF Head(content) = NL
         THEN <<Append(cur, NL)>> \o readlines_from(Tail(content), <<>>)
         ELSE readlines_from(Tail(content), Append(cur, Head(content)))

readlines(content) == readlines_from(content, <<>>)

\* handle.writelines(lines): the lines concatenated, nothing added
RECURSIVE writelines(_)
writelines(ls) ==
    IF ls = <<>> THEN <<>> ELSE Head(ls) \o writelines(Tail(ls))

\* ------------------------------------------------- UpdateLinguasAddon editor
\* Language codes known to the translation registry.
CodeUniverse == {<<"a">>, <<"b">>}

\* Characters a LINGUAS file is made of.
LinguasAlphabet == {"a", "b", SPACE, HASH, NL}

\* The orders in which Python may iterate the set of codes.
IterOrders ==
    {o \in [1..Cardinality(CodeUniverse) -> CodeUniverse] :
        \A i, j \in DOMAIN o : i # j => o[i] # o[j]}

\* Mutant of scan_linguas: the one-line form is rewritten without comparing it
\* with the expected line first.
RECURSIVE scan_linguas_always_rewrite(_, _, _, _, _)
scan_linguas_always_rewrite(ls, cs, remove, changed, i) ==
    IF i > Len(ls)
    THEN [lines |-> ls, codes |-> cs, remove |-> remove, changed |-> changed]
    ELSE LET stripped == strip(split_comment(ls[i])) IN
         IF stripped = <<>>
         THEN scan_linguas_always_rewrite(ls, cs, remove, changed, i + 1)
         ELSE IF SPACE \in Range(stripped)
         THEN [lines |-> [ls EXCEPT ![i] = join(sorted(cs)) \o <<NL>>],
               codes |-> {},
               remove |-> remove,
               changed |-> TRUE]
         ELSE IF stripped \in cs
         THEN scan_linguas_always_rewrite(ls, cs \ {stripped}, remove, changed, i + 1)
         ELSE scan_linguas_always_rewrite(ls, cs, Append(remove, i), changed, i + 1)

\* Mutant of scan_linguas: blank and comment lines are not skipped, so they are
\* looked up among the codes like any other line.
RECURSIVE scan_linguas_no_skip(_, _, _, _, _)
scan_linguas_no_skip(ls, cs, remove, changed, i) ==
    IF i > Len(ls)
    THEN [lines |-> ls, codes |-> cs, remove |-> remove, changed |-> changed]
    ELSE LET stripped == strip(split_comment(ls[i])) IN
         IF SPACE \in Range(stripped)
         THEN LET expected == join(sorted(cs)) IN
              [lines |-> IF stripped # expected
                         THEN [ls EXCEPT ![i] = expected \o <<NL>>]
                         ELSE ls,
               codes |-> {},
               remove |-> remove,
               changed |-> changed \/ stripped # expected]
         ELSE IF stripped \in cs
         THEN scan_linguas_no_skip(ls, cs \ {stripped}, remove, changed, i + 1)
         ELSE scan_linguas_no_skip(ls, cs, Append(remove, i), changed, i + 1)

\* Mutant of scan_linguas: no break after the one-line form, the loop goes on
\* with the emptied code set.
RECURSIVE scan_linguas_no_break(_, _, _, _, _)
scan_linguas_no_break(ls, cs, remove, changed, i) ==
    IF i > Len(ls)
    THEN [lines |-> ls, codes |-> cs, remove |-> remove, changed |-> changed]
    ELSE LET stripped == strip(split_comment(ls[i])) IN
         IF stripped = <<>>
         THEN scan_linguas_no_break(ls, cs, remove, changed, i + 1)
         ELSE IF SPACE \in Range(stripped)
         THEN LET expected == join(sorted(cs)) IN
              scan_linguas_no_break(IF stripped # expected
                                    THEN [ls EXCEPT ![i] = expected \o <<NL>>]
                                    ELSE ls,
                                    {}, remove, changed \/ stripped # expected, i + 1)
         ELSE IF stripped \in cs
         THEN scan_linguas_no_break(ls, cs \ {stripped}, remove, changed, i + 1)
         ELSE scan_linguas_no_break(ls, cs, Append(remove, i), changed, i + 1)

\* Mutant of scan_linguas: a code found on a line stays in the set of codes
\* still to be placed.
RECURSIVE scan_linguas_keep_codes(_, _, _, _, _)
scan_linguas_keep_codes(ls, cs, remove, changed, i) ==
    IF i > Len(ls)
    THEN [lines |-> ls, codes |-> cs, remove |-> remove, changed |-> changed]
    ELSE LET stripped == strip(split_comment(ls[i])) IN
         IF stripped = <<>>
         THEN scan_linguas_keep_codes(ls, cs, remove, changed, i + 1)
         ELSE IF SPACE \in Range(stripped)
         THEN LET expected == join(sorted(cs)) IN
              [lines |-> IF stripped # expected
                         THEN [ls EXCEPT ![i] = expected \o <<NL>>]
                         ELSE ls,
               codes |-> {},
               remove |-> remove,
               changed |-> changed \/ stripped # expected]
         ELSE IF stripped \in cs
         THEN scan_linguas_keep_codes(ls, cs, remove, changed, i + 1)
         ELSE scan_linguas_keep_codes(ls, cs, Append(remove, i), changed, i + 1)

\* The for loop of update_linguas from index i on; the loop's variables are
\* carried in the arguments and returned when the loop ends or breaks.
RECURSIVE scan_linguas(_, _, _, _, _)
scan_linguas(ls, cs, remove, changed, i) ==
    IF i > Len(ls)
    THEN [lines |-> ls, codes |-> cs, remove |-> remove, changed |-> changed]
    ELSE LET stripped == strip(split_comment(ls[i])) IN
         IF stripped = <<>>
         THEN scan_linguas(ls, cs, remove, changed, i + 1)
         ELSE IF SPACE \in Range(stripped)
         THEN LET expected == join(sorted(cs)) IN
              [lines |-> IF stripped # expected
                         THEN [ls EXCEPT ![i] = expected \o <<NL>>]
                         ELSE ls,
               codes |-> {},
               remove |-> remove,
               changed |-> changed \/ stripped # expected]
         ELSE IF stripped \in cs
         THEN scan_linguas(ls, cs \ {stripped}, remove, changed, i + 1)
         ELSE scan_linguas(ls, cs, Append(remove, i), changed, i + 1)

\* Mutant of delete_lines: the indices are deleted in ascending order, so each
\* deletion shifts the lines the later indices name.
RECURSIVE delete_lines_forward(_, _)
delete_lines_forward(ls, remove) ==
    IF remove = <<>> THEN ls
    ELSE LET i == Head(remove) IN
         delete_lines_forward(
             IF i <= Len(ls) THEN SubSeq(ls, 1, i - 1) \o SubSeq(ls, i + 1, Len(ls))
             ELSE ls,
             Tail(remove))

\* for i in reversed(remove): del lines[i]
delete_lines(ls, remove) ==
    LET keep == {i \in 1..Len(ls) : i \notin Range(remove)}
        RECURSIVE pick(_)
        pick(i) == IF i > Len(ls) THEN <<>>
                   ELSE (IF i \in keep THEN <<ls[i]>> ELSE <<>>) \o pick(i + 1)
    IN pick(1)

\* lines.extend(f"{code}\n" for code in codes), codes iterated in order iter
RECURSIVE extend_codes(_, _, _)
extend_codes(ls, cs, iter) ==
    IF iter = <<>> THEN ls
    ELSE extend_codes(IF Head(iter) \in cs THEN Append(ls, Head(iter) \o <<NL>>)
                      ELSE ls, cs, Tail(iter))

\* Mutant of update_linguas: a deletion does not set changed.
update_linguas_quiet_delete(ls, cs, iter) ==
    LET s == scan_linguas(ls, cs, <<>>, FALSE, 1)
        removed == IF s.remove # <<>> THEN delete_lines(s.lines, s.remove) ELSE s.lines
        added == IF s.codes # {} THEN extend_codes(removed, s.codes, iter) ELSE removed
    IN [changed |-> s.changed \/ s.codes # {},
        lines |-> added]

\* UpdateLinguasAddon.update_linguas(lines, codes); iter is the order in which
\* the set of codes is iterated.
update_linguas(ls, cs, iter) ==
    LET s == scan_linguas(ls, cs, <<>>, FALSE, 1)
        removed == IF s.remove # <<>> THEN delete_lines(s.lines, s.remove) ELSE s.lines
        added == IF s.codes # {} THEN extend_codes(removed, s.codes, iter) ELSE removed
    IN [changed |-> s.changed \/ s.remove # <<>> \/ s.codes # {},
        lines |-> added]

NoResult == [changed |-> FALSE, lines |-> <<>>]

\* The paths the sync add-ons work on.
LinguasPath == "LINGUAS"
ConfigureNames == <<"configure", "configure.in", "configure.ac">>
\* The paths the xgettext and msgmerge add-ons work on: the manifest
\* (get_files_from) and the template (get_new_base_filename).
ManifestPath == "po/POTFILES.in"
TemplatePath == "po/t.pot"
Paths == {LinguasPath, ManifestPath, TemplatePath} \cup Range(ConfigureNames)

\* Values of the variables a behaviour does not use.
EditorIdle == lines = <<>> /\ first = NoResult /\ second = NoResult /\ stage = 0
SyncIdle ==
    /\ fs = [p \in Paths |-> <<>>]
    /\ present = {}
    /\ addon_commit_files = <<>>
    /\ pushed = <<>>
    /\ log = <<>>
NoRun ==
    [addon |-> "none", previous_head |-> "", pending |-> FALSE, changes |-> {},
     deps |-> {}, outcome |-> "none", recorded |-> 0, triggers |-> <<>>,
     invoked |-> <<>>, failed |-> {}, writes |-> <<>>, commits |-> <<>>,
     tool |-> <<>>, before |-> [p \in Paths |-> <<>>], existed |-> {}, trace |-> <<>>]
OrchIdle ==
    /\ alert_set = {}
    /\ directory = <<>>
    /\ sources = {}
    /\ translations = <<>>
    /\ run = NoRun
PotIdle == file_a = <<>> /\ file_b = <<>> /\ compared = FALSE /\ same = FALSE
\* Nobody holds the repository lock, no concurrent operation exists.
NoHolder == 0
LockIdle == lock = NoHolder /\ procs = <<>>

\* Every document readlines() can return for a file of at most MaxFileLen
\* characters, with every subset of the known codes.
InitEditor ==
    /\ mode = "editor"
    /\ \E content \in SeqUpTo(LinguasAlphabet, MaxFileLen) : lines = readlines(content)
    /\ codes \in SUBSET CodeUniverse
    /\ first = NoResult
    /\ second = NoResult
    /\ stage = 0
    /\ SyncIdle
    /\ PotIdle
    /\ OrchIdle
    /\ LockIdle

\* changed, lines = update_linguas(lines, codes)
UpdateLinguas ==
    /\ mode = "editor"
    /\ stage = 0
    /\ \E iter \in IterOrders : first' = update_linguas(lines, codes, iter)
    /\ stage' = 1
    /\ UNCHANGED <<mode, lines, codes, second, sync_vars, pot_vars, orch_vars, lock_vars>>

\* the same call once more, on the returned lines with the same code set
UpdateLinguasAgain ==
    /\ mode = "editor"
    /\ stage = 1
    /\ \E iter \in IterOrders : second' = update_linguas(first.lines, codes, iter)
    /\ stage' = 2
    /\ UNCHANGED <<mode, lines, codes, first, sync_vars, pot_vars, orch_vars, lock_vars>>

NextEditor == UpdateLinguas \/ UpdateLinguasAgain

SpecEditor == InitEditor /\ [][NextEditor]_vars

\* ------------------------------------------ LINGUAS and configure sync runs
\* 'ALL_LINGUAS="'
KeyPrefix == <<"A", "L", "L", "_", "L", "I", "N", "G", "U", "A", "S", "=", "\"">>

\* f'ALL_LINGUAS="{codes}"\n', codes joined in language_code order
expected_line(cs) == KeyPrefix \o join(sorted(cs)) \o <<"\"", NL>>

\* Mutant of rewrite_all_linguas: the stripped line, which never ends in a
\* newline, is compared with the expected line.
RECURSIVE rewrite_all_linguas_cmp_stripped(_, _, _, _)
rewrite_all_linguas_cmp_stripped(ls, expected, added, i) ==
    IF i > Len(ls) THEN [lines |-> ls, added |-> added]
    ELSE LET stripped == strip(ls[i]) IN
         IF startswith(stripped, <<HASH>>)
         THEN rewrite_all_linguas_cmp_stripped(ls, expected, added, i + 1)
         ELSE IF ~startswith(stripped, KeyPrefix)
         THEN rewrite_all_linguas_cmp_stripped(ls, expected, added, i + 1)
         ELSE IF stripped # expected
         THEN rewrite_all_linguas_cmp_stripped([ls EXCEPT ![i] = expected], expected,
                                               TRUE, i + 1)
         ELSE rewrite_all_linguas_cmp_stripped(ls, expected, added, i + 1)

\* p in s
contains(s, p) ==
    \E i \in 0..(Len(s) - Len(p)) : SubSeq(s, i + 1, i + Len(p)) = p

\* Mutant of rewrite_all_linguas: a line is taken for the assignment when it
\* contains the key prefix anywhere, comment or not.
RECURSIVE rewrite_all_linguas_contains(_, _, _, _)
rewrite_all_linguas_contains(ls, expected, added, i) ==
    IF i > Len(ls) THEN [lines |-> ls, added |-> added]
    ELSE LET stripped == strip(ls[i]) IN
         IF ~contains(stripped, KeyPrefix)
         THEN rewrite_all_linguas_contains(ls, expected, added, i + 1)
         ELSE IF ls[i] # expected
         THEN rewrite_all_linguas_contains([ls EXCEPT ![i] = expected], expected,
                                           TRUE, i + 1)
         ELSE rewrite_all_linguas_contains(ls, expected, added, i + 1)

\* The inner for loop of UpdateConfigureAddon.sync_linguas from index i on;
\* added is the flag shared by all files of the run.
RECURSIVE rewrite_all_linguas(_, _, _, _)
rewrite_all_linguas(ls, expected, added, i) ==
    IF i > Len(ls) THEN [lines |-> ls, added |-> added]
    ELSE LET stripped == strip(ls[i]) IN
         IF startswith(stripped, <<HASH>>)
         THEN rewrite_all_linguas(ls, expected, added, i + 1)
         ELSE IF ~startswith(stripped, KeyPrefix)
         THEN rewrite_all_linguas(ls, expected, added, i + 1)
         ELSE IF ls[i] # expected
         THEN rewrite_all_linguas([ls EXCEPT ![i] = expected], expected, TRUE, i + 1)
         ELSE rewrite_all_linguas(ls, expected, added, i + 1)

\* The loop over paths of UpdateConfigureAddon.sync_linguas. written lists the
\* paths opened for writing, edited the paths of which a line was replaced.
RECURSIVE sync_paths(_, _, _, _, _, _)
sync_paths(fsys, expected, paths, added, written, edited) ==
    IF paths = <<>>
    THEN [fs |-> fsys, changed |-> added, written |-> written, edited |-> edited]
    ELSE LET path == Head(paths)
             ls == readlines(fsys[path])
             r == rewrite_all_linguas(ls, expected, added, 1)
         IN sync_paths(IF r.added THEN [fsys EXCEPT ![path] = writelines(r.lines)]
                       ELSE fsys,
                       expected, Tail(paths), r.added,
                       IF r.added THEN Append(written, path) ELSE written,
                       IF r.lines # ls THEN edited \cup {path} ELSE edited)

\* UpdateConfigureAddon.sync_linguas(component, paths)
configure_sync_linguas(fsys, cs, paths) ==
    sync_paths(fsys, expected_line(cs), paths, FALSE, <<>>, {})

\* UpdateConfigureAddon.get_configure_paths: the candidates that exist
get_configure_paths(exists) == SelectSeq(ConfigureNames, LAMBDA n : n \in exists)

\* UpdateLinguasAddon.sync_linguas(component, path)
linguas_sync_linguas(fsys, cs, path, iter) ==
    LET ls == readlines(fsys[path])
        r == update_linguas(ls, cs, iter)
    IN [fs |-> IF r.changed THEN [fsys EXCEPT ![path] = writelines(r.lines)] ELSE fsys,
        changed |-> r.changed,
        written |-> IF r.changed THEN <<path>> ELSE <<>>,
        edited |-> IF r.lines # ls THEN {path} ELSE {}]

\* What a finished run leaves in the log.
RunRecord(addon, event, r, reported) ==
    [addon |-> addon, event |-> event, codes |-> codes, before |-> fs,
     after |-> r.fs, changed |-> r.changed, written |-> r.written,
     edited |-> r.edited, reported |-> reported]

\* Lines a configure file is made of when a behaviour starts.
ConfigureLines ==
    {KeyPrefix \o <<"a", " ", "b", "\"", NL>>,
     KeyPrefix \o <<"a", "\"", NL>>,
     KeyPrefix \o <<"b", " ", "a", "\"">>,
     <<SPACE>> \o KeyPrefix \o <<"\"", NL>>,
     <<HASH>> \o KeyPrefix \o <<"a", "\"", NL>>,
     <<"x", NL>>}

\* Either the behaviour exercises UpdateConfigureAddon and the configure files
\* vary (every way of dealing at most MaxConfLines lines to the candidates that
\* exist), or it exercises UpdateLinguasAddon and the LINGUAS file varies.  The
\* two add-ons edit disjoint files.
InitSync ==
    /\ codes \in SUBSET CodeUniverse
    /\ EditorIdle
    /\ PotIdle
    /\ OrchIdle
    /\ LockIdle
    /\ addon_commit_files = <<>>
    /\ pushed = <<>>
    /\ log = <<>>
    /\ \/ \E all \in SeqUpTo(ConfigureLines, MaxConfLines) :
          \E i \in 0..Len(all) : \E j \in i..Len(all) :
          \E exists \in SUBSET Range(ConfigureNames) :
             LET part == [n \in Range(ConfigureNames) |->
                            IF n = "configure" THEN SubSeq(all, 1, i)
                            ELSE IF n = "configure.in" THEN SubSeq(all, i + 1, j)
                            ELSE SubSeq(all, j + 1, Len(all))]
             IN /\ mode = "configure"
                /\ \A n \in Range(ConfigureNames) : n \notin exists => part[n] = <<>>
                /\ present = exists \cup {LinguasPath}
                /\ fs = [p \in Paths |->
                            IF p = LinguasPath THEN <<"a", NL>>
                            ELSE IF p \in Range(ConfigureNames) THEN writelines(part[p])
                            ELSE <<>>]
       \/ \E content \in SeqUpTo(LinguasAlphabet, MaxSyncLen) :
             /\ mode = "linguas"
             /\ present = {LinguasPath}
             /\ fs = [p \in Paths |-> IF p = LinguasPath THEN content ELSE <<>>]

\* UpdateLinguasAddon.post_add(translation)
LinguasPostAdd ==
    /\ mode = "linguas"
    /\ Len(log) < MaxRuns
    /\ \E iter \in IterOrders :
         LET r == linguas_sync_linguas(fs, codes, LinguasPath, iter)
             reported == IF r.changed THEN <<LinguasPath>> ELSE <<>>
         IN /\ fs' = r.fs
            /\ addon_commit_files' = addon_commit_files \o reported
            /\ log' = Append(log, RunRecord("linguas", "post_add", r, reported))
    /\ UNCHANGED <<mode, codes, editor_vars, pot_vars, orch_vars, lock_vars, present, pushed>>

\* UpdateLinguasAddon.daily(component)
LinguasDaily ==
    /\ mode = "linguas"
    /\ Len(log) < MaxRuns
    /\ \E iter \in IterOrders :
         LET r == linguas_sync_linguas(fs, codes, LinguasPath, iter)
             reported == IF r.changed THEN <<LinguasPath>> ELSE <<>>
         IN /\ fs' = r.fs
            /\ pushed' = IF r.changed THEN Append(pushed, reported) ELSE pushed
            /\ log' = Append(log, RunRecord("linguas", "daily", r, reported))
    /\ UNCHANGED <<mode, codes, editor_vars, pot_vars, orch_vars, lock_vars, present, addon_commit_files>>

\* UpdateConfigureAddon.post_add(translation)
ConfigurePostAdd ==
    /\ mode = "configure"
    /\ Len(log) < MaxRuns
    /\ LET paths == get_configure_paths(present)
           r == configure_sync_linguas(fs, codes, paths)
           reported == IF r.changed THEN paths ELSE <<>>
       IN /\ fs' = r.fs
          /\ addon_commit_files' = addon_commit_files \o reported
          /\ log' = Append(log, RunRecord("configure", "post_add", r, reported))
    /\ UNCHANGED <<mode, codes, editor_vars, pot_vars, orch_vars, lock_vars, present, pushed>>

\* UpdateConfigureAddon.daily(component)
ConfigureDaily ==
    /\ mode = "configure"
    /\ Len(log) < MaxRuns
    /\ LET paths == get_configure_paths(present)
           r == configure_sync_linguas(fs, codes, paths)
           reported == IF r.changed THEN paths ELSE <<>>
       IN /\ fs' = r.fs
          /\ pushed' = IF r.changed THEN Append(pushed, reported) ELSE pushed
          /\ log' = Append(log, RunRecord("configure", "daily", r, reported))
    /\ UNCHANGED <<mode, codes, editor_vars, pot_vars, orch_vars, lock_vars, present, addon_commit_files>>

NextSync == LinguasPostAdd \/ LinguasDaily \/ ConfigurePostAdd \/ ConfigureDaily

SpecSync == InitSync /\ [][NextSync]_vars

\* ------------------------------------------------------ XGettextAddon differ
\* '"POT-Creation-Date: '
PotDatePrefix ==
    <<"\"", "P", "O", "T", "-", "C", "r", "e", "a", "t", "i", "o", "n", "-",
      "D", "a", "t", "e", ":", " ">>

\* '\\n"\n': backslash, n, closing quote, newline
PotDateSuffix == <<"\\", "n", "\"", NL>>

\* A line handed to is_pot_creation_date: a line of the file, or None where
\* zip_longest has run past the end of the shorter file.
None == [none |-> TRUE, line |-> <<>>]
Some(line) == [none |-> FALSE, line |-> line]

\* XGettextAddon.is_pot_creation_date(line)
is_pot_creation_date(item) ==
    IF item.none THEN FALSE
    ELSE startswith(item.line, PotDatePrefix) /\ endswith(item.line, PotDateSuffix)

\* itertools.zip_longest(f_a, f_b)
zip_longest(la, lb) ==
    LET n == IF Len(la) >= Len(lb) THEN Len(la) ELSE Len(lb) IN
    [i \in 1..n |-> <<IF i <= Len(la) THEN Some(la[i]) ELSE None,
                      IF i <= Len(lb) THEN Some(lb[i]) ELSE None>>]

\* zip(f_a, f_b): stops at the end of the shorter file
zip_shortest(la, lb) ==
    LET n == IF Len(la) <= Len(lb) THEN Len(la) ELSE Len(lb) IN
    [i \in 1..n |-> <<Some(la[i]), Some(lb[i])>>]

\* The for loop of pot_files_same over the zipped pairs.
RECURSIVE pot_pairs_same(_)
pot_pairs_same(pairs) ==
    IF pairs = <<>> THEN TRUE
    ELSE LET line_a == Head(pairs)[1]
             line_b == Head(pairs)[2]
         IN IF line_a # line_b /\ ~is_pot_creation_date(line_a) THEN FALSE
            ELSE IF line_a # line_b /\ ~is_pot_creation_date(line_b) THEN FALSE
            ELSE pot_pairs_same(Tail(pairs))

\* Mutant of pot_files_same: zip instead of zip_longest.
pot_files_same_zip(content_a, content_b) ==
    pot_pairs_same(zip_shortest(readlines(content_a), readlines(content_b)))

\* XGettextAddon.pot_files_same(file_a, file_b), on the files' contents
pot_files_same(content_a, content_b) ==
    pot_pairs_same(zip_longest(readlines(content_a), readlines(content_b)))

\* Lines a template file is made of.
PotLines ==
    {PotDatePrefix \o <<"1">> \o PotDateSuffix,
     PotDatePrefix \o <<"2">> \o PotDateSuffix,
     PotDatePrefix \o <<"1", "\\", "n", "\"">>,
     PotDatePrefix \o <<"1", "\"", NL>>,
     <<"\"", "P", "O", "-", "1">> \o PotDateSuffix,
     <<"m", NL>>}

InitPot ==
    /\ mode = "pot"
    /\ codes = {}
    /\ EditorIdle
    /\ SyncIdle
    /\ OrchIdle
    /\ LockIdle
    /\ \E la \in SeqUpTo(PotLines, MaxPotLines) : file_a = writelines(la)
    /\ \E lb \in SeqUpTo(PotLines, MaxPotLines) : file_b = writelines(lb)
    /\ compared = FALSE
    /\ same = FALSE

\* pot_files_same(file_a, file_b)
PotFilesSame ==
    /\ mode = "pot"
    /\ compared = FALSE
    /\ compared' = TRUE
    /\ same' = pot_files_same(file_a, file_b)
    /\ UNCHANGED <<mode, codes, editor_vars, sync_vars, orch_vars, lock_vars, file_a, file_b>>

NextPot == PotFilesSame

SpecPot == InitPot /\ [][NextPot]_vars

\* ------------------------------------------- msgmerge and xgettext runs
\* MsgmergeAddon.alert, XGettextAddon.alert
MsgmergeAlert == "MsgmergeAddonError"
XGettextAlert == "XGettextAddonError"

\* previous_head: empty on the first run, else the revision before the update
NoRevision == ""
Revisions == {NoRevision, "r1"}

\* component.new_base, the repository-relative path of the template
new_base == <<"t">>

\* Source paths the repository may hold, and the paths list_changed_files
\* may report.
SourceFiles == {<<"a">>, <<"d", "/", "a">>}
RepoFiles == SourceFiles \cup {new_base}

\* What list_changed_files may report for one update: nothing, one file, or
\* every file.
ChangeSets == {{}} \cup {{f} : f \in RepoFiles} \cup {RepoFiles}

\* XGettextAddon.load_file_list(path), on the manifest's content
load_file_list(content) ==
    LET kept == SelectSeq(readlines(content),
                          LAMBDA line : line # <<>> /\ ~startswith(line, <<HASH>>))
    IN [i \in 1..Len(kept) |->
            rstrip_chars(rstrip_chars(kept[i], {NL}), {" ", "\t", "\r"})]

\* os.path.join(directory, input_path)
path_join(dir, path) ==
    IF startswith(path, <<"/">>) THEN path
    ELSE IF dir = <<>> \/ endswith(dir, <<"/">>) THEN dir \o path
    ELSE dir \o <<"/">> \o path

\* path.split("/")
RECURSIVE split_sep(_, _)
split_sep(path, cur) ==
    IF path = <<>> THEN <<cur>>
    ELSE IF Head(path) = "/" THEN <<cur>> \o split_sep(Tail(path), <<>>)
    ELSE split_sep(Tail(path), Append(cur, Head(path)))

\* "/".join(parts)
RECURSIVE join_sep(_)
join_sep(parts) ==
    IF parts = <<>> THEN <<>>
    ELSE IF Len(parts) = 1 THEN parts[1]
    ELSE parts[1] \o <<"/">> \o join_sep(Tail(parts))

\* weblate.trans.util.cleanup_path: the path made repository-relative, its
\* empty, "." and ".." components dropped.
cleanup_path(path) ==
    IF path = <<>> THEN path
    ELSE join_sep(SelectSeq(split_sep(path, <<>>),
                            LAMBDA x : x \notin {<<>>, <<".">>, <<".", ".">>}))

\* repo_files of XGettextAddon.post_update
repo_files_of(content, dir) ==
    LET input_files == load_file_list(content) IN
    {cleanup_path(path_join(dir, input_files[i])) : i \in 1..Len(input_files)}

\* repository.resolve_symlinks(repo_path) returns (TRUE) or raises (FALSE):
\* the repository root, a directory of it or one of its files resolves.
resolves(path, srcs) ==
    \/ path = <<>>
    \/ path \in srcs
    \/ \E f \in srcs : startswith(f, path \o <<"/">>)

\* BaseAddon.trigger_alerts(component): the pending alert of this kind is
\* stored when the run recorded alerts and cleared when it recorded none.
trigger_alerts(alerts, name, aset) ==
    IF alerts # <<>> THEN aset \cup {name} ELSE aset \ {name}

\* One entry of self.alerts.
Alert(addon, command, error) == [addon |-> addon, command |-> command, error |-> error]

\* What a run hands back: its outcome and everything it did.
\* trace lists the run's effects in the order the code performs them.
Effects(outcome, deps, alerts, triggers, aset, fsys, exists, invoked, failed, writes, commits, trace) ==
    [outcome |-> outcome, deps |-> deps, alerts |-> alerts, triggers |-> triggers,
     alert_set |-> aset, fs |-> fsys, present |-> exists, invoked |-> invoked,
     failed |-> failed, writes |-> writes, commits |-> commits, trace |-> trace]

\* Mutant of gate_skips: a pending alert does not force the run.
gate_skips_ignoring_alert(previous_head, alert, aset, changes, deps) ==
    /\ previous_head # NoRevision
    /\ changes \cap deps = {}

\* The change gate of both add-ons, TRUE when the run returns at the gate:
\* if previous_head and not component.alert_set.filter(name=self.alert).exists():
\*     changes = ...; if not (changes & deps): return
gate_skips(previous_head, alert, aset, changes, deps) ==
    /\ previous_head # NoRevision
    /\ alert \notin aset
    /\ changes \cap deps = {}

\* Templates on disk and outputs of xgettext.
TemplateContents ==
    {PotDatePrefix \o <<"1">> \o PotDateSuffix \o <<"m", NL>>,
     PotDatePrefix \o <<"2">> \o PotDateSuffix \o <<"m", NL>>,
     PotDatePrefix \o <<"1">> \o PotDateSuffix}

\* The template on disk when a behaviour starts.
InitialTemplate == PotDatePrefix \o <<"1">> \o PotDateSuffix \o <<"m", NL>>

\* What execute_process(["xgettext", ...]) may do: fail, or succeed and leave
\* in the temporary file a template that differs from the initial one in its
\* date only, or one that lacks a message.
ToolFailed == <<"failed">>
ToolResults == {ToolFailed} \cup (TemplateContents \ {InitialTemplate})

\* os.path.dirname of the paths the run names.
dirname(path) ==
    IF path \in {ManifestPath, TemplatePath, "po/.tmp"} THEN "po"
    ELSE IF path = "/tmp/.tmp" THEN "/tmp"
    ELSE ""

\* The temporary files a run may create: in the template's directory or in
\* the system's temporary directory.
TemporaryFiles == {"po/.tmp", "/tmp/.tmp"}

\* tempfile.NamedTemporaryFile(dir=dir, delete_on_close=False).name
named_temporary_file(dir) == CHOOSE f \in TemporaryFiles : dirname(f) = dir

\* Leaving the with block: the temporary file is unlinked, a file that is no
\* longer there is ignored.
close_temporary_file(exists, tmpfile) == exists \ {tmpfile}

\* Mutant of run_xgettext: the temporary file replaces the template without
\* being compared with it.
run_xgettext_always_replace(repo_files, tool) ==
    LET name == "weblate.gettext.xgettext"
        tmpfile == named_temporary_file(dirname(TemplatePath))
        created == present \cup {tmpfile}
    IN
    IF tool = ToolFailed
    THEN LET alerts == <<Alert(name, "xgettext", "failed")>>
         IN Effects("tool_failed", repo_files, alerts, <<Len(alerts)>>,
                    trigger_alerts(alerts, XGettextAlert, alert_set),
                    fs, close_temporary_file(created, tmpfile),
                    <<"xgettext">>, {1}, <<>>, <<>>,
                    <<"mktemp", tmpfile, "xgettext", "alert", "trigger", "unlink">>)
    ELSE Effects("promoted", repo_files, <<>>, <<>>, alert_set,
                 [fs EXCEPT ![TemplatePath] = tool],
                 close_temporary_file((created \ {tmpfile}) \cup {TemplatePath}, tmpfile),
                 <<"xgettext">>, {}, <<TemplatePath>>, <<<<new_base>>>>,
                 <<"mktemp", tmpfile, "xgettext", "replace", "unlink", "commit">>)

\* Mutant of run_xgettext: the temporary file is created with delete=False,
\* so leaving the with block does not unlink it.
run_xgettext_keep_tmp(repo_files, tool) ==
    LET name == "weblate.gettext.xgettext"
        tmpfile == named_temporary_file(dirname(TemplatePath))
        created == present \cup {tmpfile}
    IN
    IF tool = ToolFailed
    THEN LET alerts == <<Alert(name, "xgettext", "failed")>>
         IN Effects("tool_failed", repo_files, alerts, <<Len(alerts)>>,
                    trigger_alerts(alerts, XGettextAlert, alert_set),
                    fs, created, <<"xgettext">>, {1}, <<>>, <<>>,
                    <<"mktemp", tmpfile, "xgettext", "alert", "trigger">>)
    ELSE IF TemplatePath \in present /\ pot_files_same(tool, fs[TemplatePath])
    THEN Effects("unchanged", repo_files, <<>>, <<>>, alert_set, fs, created,
                 <<"xgettext">>, {}, <<>>, <<>>, <<"mktemp", tmpfile, "xgettext">>)
    ELSE Effects("promoted", repo_files, <<>>, <<>>, alert_set,
                 [fs EXCEPT ![TemplatePath] = tool],
                 (created \ {tmpfile}) \cup {TemplatePath},
                 <<"xgettext">>, {}, <<TemplatePath>>, <<<<new_base>>>>,
                 <<"mktemp", tmpfile, "xgettext", "replace", "commit">>)

\* The tail of XGettextAddon.post_update, from the temporary file on: the
\* temporary file is created beside the template, xgettext writes to it, and
\* it replaces the template unless the tool failed or the template exists and
\* pot_files_same finds no difference; leaving the with block unlinks it.
run_xgettext(repo_files, tool) ==
    LET name == "weblate.gettext.xgettext"
        tmpfile == named_temporary_file(dirname(TemplatePath))
        created == present \cup {tmpfile}
    IN
    IF tool = ToolFailed
    THEN LET alerts == <<Alert(name, "xgettext", "failed")>>
         IN Effects("tool_failed", repo_files, alerts, <<Len(alerts)>>,
                    trigger_alerts(alerts, XGettextAlert, alert_set),
                    fs, close_temporary_file(created, tmpfile),
                    <<"xgettext">>, {1}, <<>>, <<>>,
                    <<"mktemp", tmpfile, "xgettext", "alert", "trigger", "unlink">>)
    ELSE IF TemplatePath \in present /\ pot_files_same(tool, fs[TemplatePath])
    THEN Effects("unchanged", repo_files, <<>>, <<>>, alert_set, fs,
                 close_temporary_file(created, tmpfile),
                 <<"xgettext">>, {}, <<>>, <<>>,
                 <<"mktemp", tmpfile, "xgettext", "unlink">>)
    ELSE Effects("promoted", repo_files, <<>>, <<>>, alert_set,
                 [fs EXCEPT ![TemplatePath] = tool],
                 close_temporary_file((created \ {tmpfile}) \cup {TemplatePath}, tmpfile),
                 <<"xgettext">>, {}, <<TemplatePath>>, <<<<new_base>>>>,
                 <<"mktemp", tmpfile, "xgettext", "replace", "unlink", "commit">>)

\* XGettextAddon.post_update(component, previous_head, skip_push, child).
\* changes: what list_changed_files reports; tool: what xgettext does.
post_update(previous_head, changes, tool) ==
    LET name == "weblate.gettext.xgettext" IN
    IF ManifestPath \notin present
    THEN LET alerts == <<Alert(name, "xgettext", "Input list (POTFILES.in) file not found")>>
         IN Effects("manifest_missing", {}, alerts, <<Len(alerts)>>,
                    trigger_alerts(alerts, XGettextAlert, alert_set),
                    fs, present, <<>>, {}, <<>>, <<>>, <<"alert", "trigger">>)
    ELSE LET repo_files == repo_files_of(fs[ManifestPath], directory) IN
         IF gate_skips(previous_head, XGettextAlert, alert_set, changes, repo_files)
         THEN Effects("skipped", repo_files, <<>>, <<>>, alert_set, fs, present,
                      <<>>, {}, <<>>, <<>>, <<>>)
         ELSE IF \E repo_path \in repo_files : ~resolves(repo_path, sources)
         THEN LET alerts == <<Alert(name, "xgettext", "unresolved")>>
              IN Effects("manifest_invalid", repo_files, alerts, <<Len(alerts)>>,
                         trigger_alerts(alerts, XGettextAlert, alert_set),
                         fs, present, <<>>, {}, <<>>, <<>>, <<"alert", "trigger">>)
         ELSE run_xgettext(repo_files, tool)

\* Mutant of merge_from: the first UpdateError ends the loop.
RECURSIVE merge_from_abort_on_failure(_, _, _, _, _, _)
merge_from_abort_on_failure(i, fails, alerts, invoked, writes, trace) ==
    IF i > Len(translations)
    THEN [alerts |-> alerts, invoked |-> invoked, writes |-> writes, trace |-> trace]
    ELSE IF translations[i] # "po"
    THEN merge_from_abort_on_failure(i + 1, fails, alerts, invoked, writes, trace)
    ELSE IF i \in fails
    THEN [alerts |-> Append(alerts, Alert("weblate.gettext.msgmerge", "msgmerge", "failed")),
          invoked |-> Append(invoked, i),
          writes |-> writes,
          trace |-> trace \o <<"msgmerge", "alert">>]
    ELSE merge_from_abort_on_failure(i + 1, fails, alerts, Append(invoked, i),
                                     Append(writes, i), Append(trace, "msgmerge"))

\* The for loop of MsgmergeAddon.update_translations from translation i on.
\* fails: the translations whose update_bilingual raises UpdateError.
RECURSIVE merge_from(_, _, _, _, _, _)
merge_from(i, fails, alerts, invoked, writes, trace) ==
    IF i > Len(translations)
    THEN [alerts |-> alerts, invoked |-> invoked, writes |-> writes, trace |-> trace]
    ELSE IF translations[i] # "po"
    THEN merge_from(i + 1, fails, alerts, invoked, writes, trace)
    ELSE IF i \in fails
    THEN merge_from(i + 1, fails,
                    Append(alerts, Alert("weblate.gettext.msgmerge", "msgmerge", "failed")),
                    Append(invoked, i), writes, trace \o <<"msgmerge", "alert">>)
    ELSE merge_from(i + 1, fails, alerts, Append(invoked, i), Append(writes, i),
                    Append(trace, "msgmerge"))

\* Mutant of update_translations: a missing template does not end the run.
update_translations_without_template(previous_head, changes, fails) ==
    IF gate_skips(previous_head, MsgmergeAlert, alert_set, changes, {new_base})
    THEN Effects("skipped", {new_base}, <<>>, <<>>, alert_set, fs, present,
                 <<>>, {}, <<>>, <<>>, <<>>)
    ELSE LET m == merge_from(1, fails, <<>>, <<>>, <<>>, <<>>)
         IN Effects("merged", {new_base}, m.alerts, <<Len(m.alerts)>>,
                    trigger_alerts(m.alerts, MsgmergeAlert, alert_set),
                    fs, present, m.invoked, fails \cap Range(m.invoked), m.writes, <<>>,
                    Append(m.trace, "trigger"))

\* MsgmergeAddon.update_translations(component, previous_head)
update_translations(previous_head, changes, fails) ==
    LET name == "weblate.gettext.msgmerge" IN
    IF gate_skips(previous_head, MsgmergeAlert, alert_set, changes, {new_base})
    THEN Effects("skipped", {new_base}, <<>>, <<>>, alert_set, fs, present,
                 <<>>, {}, <<>>, <<>>, <<>>)
    ELSE IF TemplatePath \notin present
    THEN LET alerts == <<Alert(name, "msgmerge", "Template for new translations not found")>>
         IN Effects("template_missing", {new_base}, alerts, <<Len(alerts)>>,
                    trigger_alerts(alerts, MsgmergeAlert, alert_set),
                    fs, present, <<>>, {}, <<>>, <<>>, <<"alert", "trigger">>)
    ELSE LET m == merge_from(1, fails, <<>>, <<>>, <<>>, <<>>)
         IN Effects("merged", {new_base}, m.alerts, <<Len(m.alerts)>>,
                    trigger_alerts(m.alerts, MsgmergeAlert, alert_set),
                    fs, present, m.invoked, fails \cap Range(m.invoked), m.writes, <<>>,
                    Append(m.trace, "trigger"))

\* Kinds of translation: a PO file on disk, the source translation of a
\* bilingual component, one without a file name, one whose file is gone.
TranslationKinds == {"po", "source", "nofile", "gone"}

\* Manifests: one path; a comment, a path with trailing blanks and a blank
\* line; an empty file; a path with a leading "./"; a path with a leading blank.
ManifestContents ==
    {<<"a", NL>>,
     <<HASH, "c", NL, "a", SPACE, "\t", NL, NL>>,
     <<>>,
     <<".", "/", "a", NL>>,
     <<SPACE, "a", NL>>}

\* The record of a finished run.
OrchRecord(addon, previous_head, alert, changes, tool, e) ==
    [addon |-> addon, previous_head |-> previous_head, pending |-> alert \in alert_set,
     changes |-> changes, deps |-> e.deps, outcome |-> e.outcome,
     recorded |-> Len(e.alerts), triggers |-> e.triggers, invoked |-> e.invoked,
     failed |-> e.failed, writes |-> e.writes, commits |-> e.commits,
     tool |-> tool, before |-> fs, existed |-> present, trace |-> e.trace]

\* A behaviour follows one add-on of a component: xgettext, with the manifest,
\* the directory, the sources and the template varying, or msgmerge, with the
\* translations and the template varying.
InitOrch ==
    /\ codes = {}
    /\ LockIdle
    /\ EditorIdle
    /\ PotIdle
    /\ addon_commit_files = <<>>
    /\ pushed = <<>>
    /\ log = <<>>
    /\ alert_set = {}
    /\ run = NoRun
    /\ \/ /\ mode = "xgettext"
          /\ translations = <<"po">>
          /\ directory \in {<<>>, <<"d">>}
          /\ sources \in SUBSET SourceFiles
          /\ present \in SUBSET {ManifestPath, TemplatePath}
          /\ \E manifest \in ManifestContents :
                /\ ManifestPath \notin present => manifest = <<>>
                /\ fs = [p \in Paths |->
                            IF p = ManifestPath THEN manifest
                            ELSE IF p = TemplatePath /\ p \in present
                            THEN InitialTemplate
                            ELSE <<>>]
       \/ /\ mode = "msgmerge"
          /\ translations \in SeqUpTo(TranslationKinds, MaxTranslations)
          /\ directory = <<>>
          /\ sources = {<<"a">>}
          /\ present \in {{ManifestPath}, {ManifestPath, TemplatePath}}
          /\ fs = [p \in Paths |->
                      IF p = ManifestPath THEN <<"a", NL>>
                      ELSE IF p = TemplatePath /\ p \in present
                      THEN InitialTemplate
                      ELSE <<>>]

\* XGettextAddon.post_update on a post-update event
XGettextPostUpdate ==
    /\ mode = "xgettext"
    /\ \E previous_head \in Revisions : \E changes \in ChangeSets :
       \E tool \in ToolResults :
         LET e == post_update(previous_head, changes, tool) IN
         /\ alert_set' = e.alert_set
         /\ fs' = e.fs
         /\ present' = e.present
         /\ run' = OrchRecord("xgettext", previous_head, XGettextAlert, changes, tool, e)
    /\ UNCHANGED <<mode, codes, editor_vars, pot_vars, lock_vars, addon_commit_files, pushed, log,
                   directory, sources, translations>>

\* MsgmergeAddon.update_translations on a post-update event
MsgmergeUpdateTranslations ==
    /\ mode = "msgmerge"
    /\ \E previous_head \in Revisions : \E changes \in ChangeSets :
       \E fails \in SUBSET {i \in 1..Len(translations) : translations[i] = "po"} :
         LET e == update_translations(previous_head, changes, fails) IN
         /\ alert_set' = e.alert_set
         /\ fs' = e.fs
         /\ present' = e.present
         /\ run' = OrchRecord("msgmerge", previous_head, MsgmergeAlert, changes, <<>>, e)
    /\ UNCHANGED <<mode, codes, editor_vars, pot_vars, lock_vars, addon_commit_files, pushed, log,
                   directory, sources, translations>>

NextOrch == XGettextPostUpdate \/ MsgmergeUpdateTranslations

SpecOrch == InitOrch /\ [][NextOrch]_vars

\* ------------------------------------------- concurrent sync operations
\* The processes that run a sync operation on the same repository.
Procs == {1, 2}

\* repository.lock lets process p in: nobody else holds it.
lock_admits(l, p) == l \in {NoHolder, p}

\* Mutant of LockedSteps: the lock is taken around the write only.
LockedSteps_write_only == {"write"}

\* The steps of post_add and daily inside "with ... repository.lock:".
LockedSteps == {"paths", "read", "codes", "write", "report"}

\* A process whose event has not arrived.
IdleProc ==
    [pc |-> "idle", addon |-> "none", event |-> "none", all_paths |-> <<>>,
     paths |-> <<>>, lines |-> <<>>, cs |-> {}, changed |-> FALSE, entered |-> FALSE]

\* LINGUAS files the concurrent operations start from.
LockLinguasContents == {<<>>, <<"a", NL>>, <<HASH, NL, "b", NL>>}

\* configure files the concurrent operations start from.
LockConfigureContents ==
    {KeyPrefix \o <<"a", "\"", NL>>, <<"x", NL>> \o KeyPrefix \o <<"\"", NL>>}

InitLock ==
    /\ mode = "locked"
    /\ codes \in SUBSET CodeUniverse
    /\ EditorIdle
    /\ PotIdle
    /\ OrchIdle
    /\ addon_commit_files = <<>>
    /\ pushed = <<>>
    /\ log = <<>>
    /\ present = {LinguasPath, "configure", "configure.ac"}
    /\ \E linguas \in LockLinguasContents : \E configure \in LockConfigureContents :
         fs = [p \in Paths |->
                  IF p = LinguasPath THEN linguas
                  ELSE IF p = "configure" THEN configure
                  ELSE IF p = "configure.ac" THEN KeyPrefix \o <<"\"", NL>>
                  ELSE <<>>]
    /\ lock = NoHolder
    /\ procs = [p \in Procs |-> IdleProc]

\* Process p may take the step it is at: a step inside the with block needs
\* the lock.
may_step(p) == procs[p].pc \in LockedSteps => lock_admits(lock, p)

\* The lock after process p has gone from step cur to step next: held from
\* the first step inside the with block to the last.
lock_after(p, cur, next) ==
    IF cur \in LockedSteps
    THEN (IF next \in LockedSteps THEN p ELSE NoHolder)
    ELSE lock

\* The step that follows cur for a process with the given add-on and the
\* given paths still to do after this step.
next_pc(addon, cur, rest) ==
    IF addon = "linguas"
    THEN CASE cur = "read" -> "codes"
           [] cur = "codes" -> "write"
           [] cur = "write" -> "report"
           [] OTHER -> "done"
    ELSE CASE cur = "paths" -> "codes"
           [] cur = "codes" -> IF rest = <<>> THEN "report" ELSE "read"
           [] cur = "read" -> "write"
           [] cur = "write" -> IF rest = <<>> THEN "report" ELSE "read"
           [] OTHER -> "done"

\* A post_add or daily event of one of the two add-ons arrives at process p;
\* post_add follows the creation of a translation.
LockStart(p) ==
    /\ mode = "locked"
    /\ procs[p].pc = "idle"
    /\ \E addon \in {"linguas", "configure"} : \E event \in {"post_add", "daily"} :
         /\ IF event = "post_add"
            THEN \E c \in CodeUniverse \ codes : codes' = codes \cup {c}
            ELSE codes' = codes
         /\ procs' = [procs EXCEPT ![p] =
                [IdleProc EXCEPT !.pc = IF addon = "linguas" THEN "read" ELSE "paths",
                                 !.addon = addon,
                                 !.event = event,
                                 !.all_paths = IF addon = "linguas" THEN <<LinguasPath>> ELSE <<>>,
                                 !.paths = IF addon = "linguas" THEN <<LinguasPath>> ELSE <<>>]]
    /\ UNCHANGED <<mode, editor_vars, sync_vars, pot_vars, orch_vars, lock>>

\* paths = list(self.get_configure_paths(component))
LockPaths(p) ==
    /\ mode = "locked"
    /\ procs[p].pc = "paths"
    /\ may_step(p)
    /\ LET paths == get_configure_paths(present)
           next == next_pc(procs[p].addon, "paths", paths)
       IN /\ procs' = [procs EXCEPT ![p].pc = next, ![p].all_paths = paths,
                                    ![p].paths = paths, ![p].entered = TRUE]
          /\ lock' = lock_after(p, "paths", next)
    /\ UNCHANGED <<mode, codes, editor_vars, sync_vars, pot_vars, orch_vars>>

\* with open(path) as handle: lines = handle.readlines()
LockRead(p) ==
    /\ mode = "locked"
    /\ procs[p].pc = "read"
    /\ may_step(p)
    /\ LET next == next_pc(procs[p].addon, "read", Tail(procs[p].paths))
       IN /\ procs' = [procs EXCEPT ![p].pc = next,
                                    ![p].lines = readlines(fs[Head(procs[p].paths)]),
                                    ![p].entered = TRUE]
          /\ lock' = lock_after(p, "read", next)
    /\ UNCHANGED <<mode, codes, editor_vars, sync_vars, pot_vars, orch_vars>>

\* codes = ...translation_set...values_list("language_code")
LockCodes(p) ==
    /\ mode = "locked"
    /\ procs[p].pc = "codes"
    /\ may_step(p)
    /\ LET next == next_pc(procs[p].addon, "codes", procs[p].paths)
       IN /\ procs' = [procs EXCEPT ![p].pc = next, ![p].cs = codes]
          /\ lock' = lock_after(p, "codes", next)
    /\ UNCHANGED <<mode, codes, editor_vars, sync_vars, pot_vars, orch_vars>>

\* The lines are reconciled and, when something changed, written back.
LockWrite(p) ==
    /\ mode = "locked"
    /\ procs[p].pc = "write"
    /\ may_step(p)
    /\ LET path == Head(procs[p].paths)
           rest == Tail(procs[p].paths)
           next == next_pc(procs[p].addon, "write", rest)
       IN /\ \E iter \in IterOrders :
               LET r == IF procs[p].addon = "linguas"
                        THEN update_linguas(procs[p].lines, procs[p].cs, iter)
                        ELSE LET c == rewrite_all_linguas(procs[p].lines,
                                                          expected_line(procs[p].cs),
                                                          procs[p].changed, 1)
                             IN [changed |-> c.added, lines |-> c.lines]
               IN /\ fs' = IF r.changed
                           THEN [fs EXCEPT ![path] = writelines(r.lines)]
                           ELSE fs
                  /\ procs' = [procs EXCEPT ![p].pc = next, ![p].paths = rest,
                                            ![p].changed = r.changed]
          /\ lock' = lock_after(p, "write", next)
    /\ UNCHANGED <<mode, codes, editor_vars, pot_vars, orch_vars, present,
                   addon_commit_files, pushed, log>>

\* The changed paths go to addon_commit_files (post_add) or commit_and_push
\* (daily); the with block ends.
LockReport(p) ==
    /\ mode = "locked"
    /\ procs[p].pc = "report"
    /\ may_step(p)
    /\ LET reported == IF procs[p].changed THEN procs[p].all_paths ELSE <<>>
       IN /\ addon_commit_files' = IF procs[p].event = "post_add"
                                   THEN addon_commit_files \o reported
                                   ELSE addon_commit_files
          /\ pushed' = IF procs[p].event = "daily" /\ procs[p].changed
                       THEN Append(pushed, reported)
                       ELSE pushed
    /\ procs' = [procs EXCEPT ![p].pc = "done", ![p].entered = TRUE]
    /\ lock' = lock_after(p, "report", "done")
    /\ UNCHANGED <<mode, codes, editor_vars, pot_vars, orch_vars, fs, present, log>>

NextLock ==
    \E p \in Procs :
        \/ LockStart(p)
        \/ LockPaths(p)
        \/ LockRead(p)
        \/ LockCodes(p)
        \/ LockWrite(p)
        \/ LockReport(p)

SpecLock == InitLock /\ [][NextLock]_vars

\* ------------------------------------------------ claims about the editor
\* The token of a line: the text before '#', trimmed.
Token(line) == strip(split_comment(line))
IsBlankOrComment(line) == Token(line) = <<>>
IsLegacy(line) == SPACE \in Range(Token(line))
HasLegacy(ls) == \E i \in 1..Len(ls) : IsLegacy(ls[i])
CodeTokens(ls) == {Token(ls[i]) : i \in {j \in 1..Len(ls) : ~IsBlankOrComment(ls[j])}}

\* The words of a token: its maximal runs of non-space characters.
RECURSIVE WordsFrom(_, _)
WordsFrom(tok, cur) ==
    IF tok = <<>> THEN (IF cur = <<>> THEN {} ELSE {cur})
    ELSE IF Head(tok) = SPACE
         THEN (IF cur = <<>> THEN {} ELSE {cur}) \cup WordsFrom(Tail(tok), <<>>)
         ELSE WordsFrom(Tail(tok), Append(cur, Head(tok)))
Words(tok) == WordsFrom(tok, <<>>)

\* C1: calling update_linguas again on the returned lines with the same code
\* set returns changed=false and leaves the lines unchanged.
C1_SecondCallNoChange ==
    stage = 2 => (second.changed = FALSE /\ second.lines = first.lines)

\* C2: for a document without a legacy line, the tokens of the non-blank,
\* non-comment lines of the result are exactly the desired codes.
C2_TokensEqualCodes ==
    (stage >= 1 /\ ~HasLegacy(lines)) => CodeTokens(first.lines) = codes

\* C2 witness: a document without a legacy line from which a stale code was
\* deleted and to which a missing code was appended.
C2_Witness ==
    /\ stage = 1
    /\ ~HasLegacy(lines)
    /\ CodeTokens(lines) \ codes # {}
    /\ codes \ CodeTokens(lines) # {}
    /\ CodeTokens(first.lines) = codes

\* C3: changed is true if and only if the returned lines differ from the
\* lines handed in (first and second call alike).
C3_ChangedIffDiffers ==
    /\ stage >= 1 => (first.changed <=> first.lines # lines)
    /\ stage = 2 => (second.changed <=> second.lines # first.lines)

\* C3 witness: a document with a legacy line that the call rewrote.
C3_Witness ==
    /\ stage = 1
    /\ HasLegacy(lines)
    /\ first.changed
    /\ first.lines # lines

\* C4 as stated: a single legacy line whose set of codes is the desired set
\* is left alone with changed=false, whatever the order of its codes.
C4_AnyOrderUnchanged ==
    (stage >= 1 /\ Len(lines) = 1 /\ IsLegacy(lines[1])
        /\ Words(Token(lines[1])) = codes)
    => (first.changed = FALSE /\ first.lines = lines)

\* C4 amended: a single legacy line is left alone with changed=false exactly
\* when its token is the desired codes sorted and joined by single spaces;
\* any other legacy line, also one holding the desired codes in another
\* order, is rewritten to that sorted line with changed=true.
C4_SortedLineUnchanged ==
    (stage >= 1 /\ Len(lines) = 1 /\ IsLegacy(lines[1]))
    => IF Token(lines[1]) = join(sorted(codes))
       THEN first.changed = FALSE /\ first.lines = lines
       ELSE first.changed = TRUE /\ first.lines = <<join(sorted(codes)) \o <<NL>>>>

\* C4 witness: a single legacy line that already is the sorted join of two
\* desired codes, after the call.
C4_Witness ==
    /\ stage = 1
    /\ Len(lines) = 1
    /\ IsLegacy(lines[1])
    /\ Cardinality(codes) = 2
    /\ Token(lines[1]) = join(sorted(codes))
    /\ first.changed = FALSE

\* out is ls with code lines deleted, kept, or (legacy lines only) replaced in
\* place, blank and comment lines kept verbatim, followed by appended lines
\* that each hold one desired code.
RECURSIVE OnlyCodeLinesEdited(_, _, _)
OnlyCodeLinesEdited(ls, out, cs) ==
    IF ls = <<>>
    THEN \A i \in 1..Len(out) : \E c \in cs : out[i] = c \o <<NL>>
    ELSE IF IsBlankOrComment(Head(ls))
    THEN out # <<>> /\ Head(out) = Head(ls)
         /\ OnlyCodeLinesEdited(Tail(ls), Tail(out), cs)
    ELSE \/ OnlyCodeLinesEdited(Tail(ls), out, cs)
         \/ /\ out # <<>>
            /\ Head(out) = Head(ls) \/ IsLegacy(Head(ls))
            /\ OnlyCodeLinesEdited(Tail(ls), Tail(out), cs)

\* The tokens of the code lines, in document order.
RECURSIVE CodeTokenSeq(_)
CodeTokenSeq(ls) ==
    IF ls = <<>> THEN <<>>
    ELSE (IF IsBlankOrComment(Head(ls)) THEN <<>> ELSE <<Token(Head(ls))>>)
         \o CodeTokenSeq(Tail(ls))

ExactlyTheCodes(ls, cs) ==
    LET toks == CodeTokenSeq(ls) IN
    /\ Range(toks) = cs
    /\ Len(toks) = Cardinality(cs)

\* C5: blank and comment lines are kept verbatim and in order, surviving
\* lines keep their order, only code lines are deleted, replaced or appended;
\* comment/blank lines plus exactly the desired codes give changed=false.
C5_CommentsAndOrderKept ==
    stage >= 1 =>
        /\ OnlyCodeLinesEdited(lines, first.lines, codes)
        /\ (~HasLegacy(lines) /\ ExactlyTheCodes(lines, codes))
            => (first.changed = FALSE /\ first.lines = lines)

\* C5 witness: a comment line and a blank line around a stale code line that
\* the call deleted.
C5_Witness ==
    /\ stage = 1
    /\ Len(lines) = 3
    /\ startswith(lines[1], <<HASH>>)
    /\ ~IsBlankOrComment(lines[2])
    /\ lines[3] = <<NL>>
    /\ first.changed
    /\ Len(first.lines) >= 2
    /\ first.lines[1] = lines[1]
    /\ first.lines[2] = lines[3]

\* ------------------------------------------- claims about the sync add-ons
\* A line UpdateConfigureAddon.sync_linguas manages: not a comment, and its
\* trimmed content starts with the key prefix.
IsKeyLine(line) ==
    LET st == strip(line) IN ~startswith(st, <<HASH>>) /\ startswith(st, KeyPrefix)

AllKeyLinesAre(content, line) ==
    LET ls == readlines(content) IN
    \A i \in 1..Len(ls) : IsKeyLine(ls[i]) => ls[i] = line

HasKeyLine(content) ==
    LET ls == readlines(content) IN \E i \in 1..Len(ls) : IsKeyLine(ls[i])

ConfigureRuns == {k \in 1..Len(log) : log[k].addon = "configure"}
ExistingConfigure == Range(ConfigureNames) \cap present

\* C6: after a configure sync every key line of every processed file is the
\* expected line; when all key lines already were, the run reports
\* changed=false; a second run with the same codes reports changed=false and
\* writes nothing.
C6_KeyLinesCanonical ==
    \A k \in ConfigureRuns :
        LET rec == log[k]
            want == KeyPrefix \o join(sorted(rec.codes)) \o <<"\"", NL>>
        IN /\ \A p \in ExistingConfigure : AllKeyLinesAre(rec.after[p], want)
           /\ (\A p \in ExistingConfigure : AllKeyLinesAre(rec.before[p], want))
                => (rec.changed = FALSE /\ rec.after = rec.before)
           /\ (\E j \in ConfigureRuns : j < k)
                => (rec.changed = FALSE /\ rec.written = <<>>)

\* C6 witness: a first configure run that rewrote a key line, then a second
\* one that found nothing to do.
C6_Witness ==
    /\ Len(log) = 2
    /\ ConfigureRuns = {1, 2}
    /\ log[1].changed = TRUE
    /\ \E p \in ExistingConfigure : HasKeyLine(log[1].before[p])
    /\ log[2].changed = FALSE
    /\ log[2].written = <<>>

\* C7: in a configure sync a file is written if and only if one of its own
\* lines was replaced.
C7_WrittenIffOwnLineReplaced ==
    \A k \in ConfigureRuns : Range(log[k].written) = log[k].edited

\* C8: the paths a run hands to the commit collector are exactly the paths
\* whose content the run changed.
C8_ReportedIffContentChanged ==
    \A k \in 1..Len(log) :
        Range(log[k].reported) = {p \in Paths : log[k].before[p] # log[k].after[p]}

\* --------------------------------------------------- claims about the differ
\* A POT-Creation-Date header line: the quoted header name, anything, then the
\* two-character escape \n, the closing quote and the newline.
IsCreationDateLine(line) ==
    /\ Len(line) >= Len(PotDatePrefix)
    /\ \A i \in 1..Len(PotDatePrefix) : line[i] = PotDatePrefix[i]
    /\ Len(line) >= 4
    /\ line[Len(line) - 3] = "\\"
    /\ line[Len(line) - 2] = "n"
    /\ line[Len(line) - 1] = "\""
    /\ line[Len(line)] = NL

\* C9: pot_files_same is true exactly when at every position the two files
\* hold the same line or both hold a POT-Creation-Date line; a position
\* only one file has, or where only one line is a POT-Creation-Date line,
\* makes it false.
C9_SameUpToCreationDate ==
    compared =>
        LET la == readlines(file_a)
            lb == readlines(file_b)
            both == {i \in 1..Len(la) : i <= Len(lb)}
        IN same = (/\ Len(la) = Len(lb)
                   /\ \A i \in both :
                        \/ la[i] = lb[i]
                        \/ IsCreationDateLine(la[i]) /\ IsCreationDateLine(lb[i]))

\* C9 witness: two files of two lines that differ only in the date of their
\* POT-Creation-Date line, compared as the same.
C9_Witness ==
    /\ compared
    /\ same = TRUE
    /\ file_a # file_b
    /\ Len(readlines(file_a)) = 2
    /\ Len(readlines(file_b)) = 2

\* ---------------------------------------------- claims about the two runs
\* The run evaluated its change gate; it went on past it.
GateReached(r) == r.outcome \notin {"none", "manifest_missing"}
PassedGate(r) == GateReached(r) /\ r.outcome # "skipped"

\* C10: a run that evaluates the change gate goes on past it if there is no
\* previous revision or an alert of its kind is pending; otherwise it goes on
\* exactly when a changed file belongs to the dependency set: new_base for
\* msgmerge, the normalized manifest paths for xgettext.
C10_ChangeGate ==
    GateReached(run) =>
        /\ PassedGate(run) <=>
             \/ run.previous_head = NoRevision
             \/ run.pending
             \/ \E f \in run.changes : f \in run.deps
        /\ run.addon = "msgmerge" => run.deps = {<<"t">>}
        /\ (run.addon = "xgettext" /\ fs[ManifestPath] = <<"a", NL>>)
             => run.deps = {IF directory = <<>> THEN <<"a">> ELSE <<"d", "/", "a">>}

\* C10 witness: an xgettext run with a previous revision and no relevant
\* change that went on past the gate because an alert was pending.
C10_Witness ==
    /\ run.addon = "xgettext"
    /\ run.previous_head # NoRevision
    /\ run.pending
    /\ run.deps # {}
    /\ run.changes # {}
    /\ run.changes \cap run.deps = {}
    /\ PassedGate(run)

\* The gate's inputs tell the run to skip: a previous revision exists, no
\* alert of the add-on's kind is pending, no changed file is a dependency.
GateSaysSkip(r) ==
    /\ r.addon # "none"
    /\ r.previous_head # NoRevision
    /\ ~r.pending
    /\ r.changes \cap r.deps = {}

\* The run recorded and triggered no alert, invoked no tool, wrote and
\* committed nothing and left the working tree and the alerts as they were.
IsNoOp(r) ==
    /\ r.recorded = 0
    /\ r.triggers = <<>>
    /\ r.invoked = <<>>
    /\ r.writes = <<>>
    /\ r.commits = <<>>
    /\ r.trace = <<>>
    /\ fs = r.before
    /\ present = r.existed
    /\ (XGettextAlert \in alert_set) = (r.addon = "xgettext" /\ r.pending)
    /\ (MsgmergeAlert \in alert_set) = (r.addon = "msgmerge" /\ r.pending)

\* C11: a run with a previous revision, no pending alert of its kind and no
\* changed file in the dependency set is a complete no-op, for msgmerge and
\* for xgettext; for xgettext also when the manifest is missing, as the gate
\* is decided before any manifest-missing alert.
C11_GateSkipIsNoOp ==
    GateSaysSkip(run) => IsNoOp(run)

\* The run replaced the template by the temporary file.
Replaced(r) == "replace" \in Range(r.trace)

\* xgettext was run and no alert was recorded.
ToolSucceeded(r) == r.invoked = <<"xgettext">> /\ r.recorded = 0

\* Two templates differ in more than the text of their POT-Creation-Date lines.
MateriallyDifferent(content_a, content_b) ==
    LET la == readlines(content_a)
        lb == readlines(content_b)
    IN \/ Len(la) # Len(lb)
       \/ \E i \in 1..Len(la) :
            /\ i <= Len(lb)
            /\ la[i] # lb[i]
            /\ ~(IsCreationDateLine(la[i]) /\ IsCreationDateLine(lb[i]))

\* C12: an xgettext run replaces the template by the tool's output if and
\* only if the tool succeeded and the template did not exist or differs
\* materially from the output; otherwise the working tree is unchanged;
\* commit_and_push is called exactly in the runs that replaced the template,
\* and after the replacement.
C12_ReplaceIffMaterialChange ==
    run.addon = "xgettext" =>
        /\ Replaced(run) <=>
             /\ ToolSucceeded(run)
             /\ \/ TemplatePath \notin run.existed
                \/ MateriallyDifferent(run.tool, run.before[TemplatePath])
        /\ Replaced(run) =>
             /\ fs = [run.before EXCEPT ![TemplatePath] = run.tool]
             /\ present = run.existed \cup {TemplatePath}
             /\ run.writes = <<TemplatePath>>
        /\ ~Replaced(run) =>
             /\ fs = run.before
             /\ present = run.existed
             /\ run.writes = <<>>
        /\ (run.commits # <<>>) <=> Replaced(run)
        /\ \A i \in 1..Len(run.trace) :
             run.trace[i] = "commit" => \E j \in 1..(i - 1) : run.trace[j] = "replace"

\* C12 witness: a run whose tool succeeded with an output that differs from
\* the existing template in its date only, so nothing was replaced or
\* committed.
C12_Witness ==
    /\ run.addon = "xgettext"
    /\ ToolSucceeded(run)
    /\ TemplatePath \in run.existed
    /\ run.tool # run.before[TemplatePath]
    /\ ~MateriallyDifferent(run.tool, run.before[TemplatePath])
    /\ ~Replaced(run)
    /\ fs = run.before
    /\ run.commits = <<>>

\* The msgmerge run went through its batch: the gate did not tell it to skip
\* and the template existed.
BatchRan(r) ==
    /\ r.addon = "msgmerge"
    /\ ~GateSaysSkip(r)
    /\ TemplatePath \in r.existed

\* The translations msgmerge is run on, in iteration order.
RECURSIVE EligibleFrom(_)
EligibleFrom(i) ==
    IF i > Len(translations) THEN <<>>
    ELSE (IF translations[i] = "po" THEN <<i>> ELSE <<>>) \o EligibleFrom(i + 1)

\* How often event e occurs in a trace.
RECURSIVE Count(_, _)
Count(tr, e) ==
    IF tr = <<>> THEN 0
    ELSE (IF Head(tr) = e THEN 1 ELSE 0) + Count(Tail(tr), e)

\* C13: in a msgmerge batch every eligible translation is attempted, also
\* those after a failed one; each failed item records exactly one alert,
\* right after its merge; trigger_alerts is called once, after the batch.
C13_FailureIsolation ==
    BatchRan(run) =>
        /\ run.invoked = EligibleFrom(1)
        /\ run.recorded = Cardinality(run.failed)
        /\ Count(run.trace, "alert") = Cardinality(run.failed)
        /\ Count(run.trace, "msgmerge") = Len(EligibleFrom(1))
        /\ \A k \in 1..Len(run.invoked) :
             LET after == SubSeq(run.trace, 1, Len(run.trace) - 1)
                 \* position in the trace of the k-th merge
                 pos == CHOOSE n \in 1..Len(after) :
                          /\ after[n] = "msgmerge"
                          /\ Count(SubSeq(after, 1, n), "msgmerge") = k
             IN (run.invoked[k] \in run.failed)
                  <=> (pos < Len(after) /\ after[pos + 1] = "alert")
        /\ Count(run.trace, "trigger") = 1
        /\ run.trace[Len(run.trace)] = "trigger"
        /\ run.triggers = <<Cardinality(run.failed)>>

\* C13 witness: a batch of two translation files of which the first failed
\* and the second was still merged.
C13_Witness ==
    /\ BatchRan(run)
    /\ Len(run.invoked) = 2
    /\ run.failed = {run.invoked[1]}
    /\ run.writes = <<run.invoked[2]>>
    /\ run.recorded = 1

\* The alert of the add-on the run belongs to.
AlertOf(r) == IF r.addon = "xgettext" THEN XGettextAlert ELSE MsgmergeAlert

\* C14: a run that starts with an alert of its kind pending is not skipped at
\* the gate, and when it completes without recording an alert (every tool
\* invocation succeeded) it calls trigger_alerts once with an empty alert
\* list, so that the alert is no longer pending: for msgmerge and for
\* xgettext, whether or not the xgettext output differs materially.
C14_SuccessClearsAlert ==
    (run.addon # "none" /\ run.pending) =>
        /\ run.outcome # "skipped"
        /\ run.recorded = 0 =>
             /\ run.triggers = <<0>>
             /\ AlertOf(run) \notin alert_set

\* ------------------------------------------- claims about the manifest parser
\* A line without its line terminator and the blanks before it.
RECURSIVE DropTrailing(_, _)
DropTrailing(line, chars) ==
    IF line = <<>> THEN line
    ELSE IF line[Len(line)] \in chars
         THEN DropTrailing(SubSeq(line, 1, Len(line) - 1), chars)
         ELSE line

EntryOf(line) ==
    LET body == IF line # <<>> /\ line[Len(line)] = NL
                THEN SubSeq(line, 1, Len(line) - 1) ELSE line
    IN DropTrailing(body, {" ", "\t", "\r"})

\* One entry per line that does not start with '#', in file order.
RECURSIVE EntriesOf(_)
EntriesOf(ls) ==
    IF ls = <<>> THEN <<>>
    ELSE (IF Head(ls)[1] = HASH THEN <<>> ELSE <<EntryOf(Head(ls))>>)
         \o EntriesOf(Tail(ls))

\* The run read the manifest.
ManifestRead(r) == r.addon = "xgettext" /\ ManifestPath \in r.existed

\* The entries of the manifest the run read that are not empty.
PathEntries(r) ==
    LET entries == load_file_list(r.before[ManifestPath]) IN
    {entries[i] : i \in {j \in 1..Len(entries) : entries[j] # <<>>}}

\* C15, the parser: one entry per line not starting with '#', in file order,
\* the newline and then trailing spaces, tabs and carriage returns removed,
\* leading whitespace kept, blank lines kept as empty entries.
C15_EntriesParsed ==
    ManifestRead(run) =>
        load_file_list(run.before[ManifestPath])
            = EntriesOf(readlines(run.before[ManifestPath]))

\* C15: the parser as above, and the dependency set of the run holds one path
\* for each non-empty entry and nothing for the empty ones.
C15_ManifestPaths ==
    ManifestRead(run) =>
        /\ C15_EntriesParsed
        /\ run.deps = {cleanup_path(path_join(directory, e)) : e \in PathEntries(run)}

\* ------------------------------------ claims about failed preconditions
\* The run met a failed precondition: the xgettext manifest is missing, or a
\* run that went on past the gate found a manifest path that does not resolve
\* or (msgmerge) no template.
ManifestMissing(r) == r.addon = "xgettext" /\ ManifestPath \notin r.existed
ManifestInvalid(r) ==
    /\ ManifestRead(r)
    /\ ~GateSaysSkip(r)
    /\ \E path \in r.deps : ~resolves(path, sources)
TemplateMissing(r) ==
    /\ r.addon = "msgmerge"
    /\ ~GateSaysSkip(r)
    /\ TemplatePath \notin r.existed

\* C16: a run that meets a missing manifest, an unresolvable manifest entry or
\* a missing msgmerge template records exactly one alert, hands it to
\* trigger_alerts and does nothing else: no tool is invoked, no file is
\* written or replaced, nothing is committed.
C16_PreconditionAlertOnly ==
    (ManifestMissing(run) \/ ManifestInvalid(run) \/ TemplateMissing(run)) =>
        /\ run.recorded = 1
        /\ run.triggers = <<1>>
        /\ run.trace = <<"alert", "trigger">>
        /\ AlertOf(run) \in alert_set
        /\ run.invoked = <<>>
        /\ run.writes = <<>>
        /\ run.commits = <<>>
        /\ fs = run.before
        /\ present = run.existed

\* C16 witness: a msgmerge run over a translation file that found no template.
C16_Witness ==
    /\ TemplateMissing(run)
    /\ \E i \in 1..Len(translations) : translations[i] = "po"
    /\ run.recorded = 1
    /\ run.invoked = <<>>

\* -------------------------------- claims about concurrent sync operations
\* The processes in the middle of their read-modify-write.
Running == {p \in DOMAIN procs : procs[p].entered /\ procs[p].pc # "done"}
AllDone == procs # <<>> /\ \A p \in DOMAIN procs : procs[p].pc = "done"
AllRan(addon) == \A p \in DOMAIN procs : procs[p].addon = addon

\* C17: concurrent sync operations never interleave: at most one is in the
\* middle of its read-modify-write and it holds the lock; what it writes is
\* computed from the content the file has at the time of the write (the
\* content the previous holder of the lock left); when the operations of one
\* add-on have all finished, its files agree with the translations, so no
\* update is lost.
C17_NoInterleaving ==
    /\ Cardinality(Running) <= 1
    /\ \A p \in Running : lock = p
    /\ \A p \in DOMAIN procs :
         procs[p].pc = "write" => procs[p].lines = readlines(fs[Head(procs[p].paths)])
    /\ (AllDone /\ AllRan("linguas")) => CodeTokens(readlines(fs[LinguasPath])) = codes
    /\ (AllDone /\ AllRan("configure")) =>
         \A path \in ExistingConfigure : AllKeyLinesAre(fs[path], expected_line(codes))

\* C17 witness: two post_add operations on the LINGUAS file have finished,
\* each after the creation of its translation, and both wrote the file.
C17_Witness ==
    /\ AllDone
    /\ \A p \in DOMAIN procs :
         /\ procs[p].addon = "linguas"
         /\ procs[p].event = "post_add"
         /\ procs[p].changed
    /\ Len(addon_commit_files) = 2
    /\ Cardinality(codes) = 2

\* ------------------------------------- more claims about the LINGUAS editor
\* The index of the first line that is neither blank nor a comment, 0 if
\* there is none.
FirstCodeLine(ls) ==
    LET code == {i \in 1..Len(ls) : ~IsBlankOrComment(ls[i])} IN
    IF code = {} THEN 0 ELSE CHOOSE i \in code : \A j \in code : i <= j

\* C18: when the first non-blank, non-comment line is a legacy line whose
\* token is not the desired codes sorted and joined by single spaces, the
\* result is the document with that line replaced by the joined codes and a
\* newline, changed=true, and nothing else: later lines are untouched, no
\* line is deleted, no code is appended.
C18_LegacyRewriteStops ==
    LET i == FirstCodeLine(lines)
        expected == join(sorted(codes))
    IN (stage >= 1 /\ i # 0 /\ IsLegacy(lines[i]) /\ Token(lines[i]) # expected) =>
          /\ first.changed = TRUE
          /\ first.lines = [lines EXCEPT ![i] = expected \o <<NL>>]

\* C18 witness: a stale legacy line followed by a code line that is not
\* wanted and stays where it is.
C18_Witness ==
    /\ stage = 1
    /\ Len(lines) = 2
    /\ IsLegacy(lines[1])
    /\ Token(lines[1]) # join(sorted(codes))
    /\ ~IsBlankOrComment(lines[2])
    /\ Token(lines[2]) \notin codes
    /\ first.changed
    /\ Len(first.lines) = 2
    /\ first.lines[2] = lines[2]

\* -------------------------------- more claims about the sync add-ons
\* C19: a configure sync keeps the number and order of the lines of every
\* file and leaves identical every line whose trimmed content starts with
\* '#' (a commented-out assignment too) and every line whose trimmed content
\* does not start with the key prefix.
C19_OnlyKeyLinesChange ==
    \A k \in ConfigureRuns : \A p \in ExistingConfigure :
        LET b == readlines(log[k].before[p])
            a == readlines(log[k].after[p])
        IN /\ Len(a) = Len(b)
           /\ \A i \in 1..Len(b) :
                /\ startswith(strip(b[i]), <<HASH>>) => a[i] = b[i]
                /\ ~startswith(strip(b[i]), KeyPrefix) => a[i] = b[i]

\* C19 witness: a configure run on a file that holds a commented-out
\* assignment and a stale assignment; the run replaced the second and kept
\* the first.
C19_Witness ==
    \E k \in ConfigureRuns : \E p \in ExistingConfigure :
        LET b == readlines(log[k].before[p])
            a == readlines(log[k].after[p])
        IN /\ Len(b) = 2
           /\ \E i, j \in 1..2 :
                /\ startswith(b[i], <<HASH>> \o KeyPrefix)
                /\ a[i] = b[i]
                /\ IsKeyLine(b[j])
                /\ a[j] # b[j]

LinguasRuns == {k \in 1..Len(log) : log[k].addon = "linguas"}

\* C20: at file level the LINGUAS sync is idempotent for every file content,
\* a file whose last line has no newline included: the sync that follows a
\* sync with the same codes reads the file back and reports changed=false.
C20_FileSyncIdempotent ==
    \A k \in LinguasRuns :
        (k + 1) \in LinguasRuns =>
            /\ log[k + 1].changed = FALSE
            /\ log[k + 1].after = log[k].after

\* ------------------------------------------ claims about repeated codes
\* The lines of ls at the indices in keep, in order.
RECURSIVE Restrict(_, _, _)
Restrict(ls, keep, i) ==
    IF i > Len(ls) THEN <<>>
    ELSE (IF i \in keep THEN <<ls[i]>> ELSE <<>>) \o Restrict(ls, keep, i + 1)

\* The lines that stay: blank and comment lines, and the first line of every
\* desired code.
Survivors(ls, cs) ==
    {i \in 1..Len(ls) :
        \/ IsBlankOrComment(ls[i])
        \/ /\ Token(ls[i]) \in cs
           /\ \A j \in 1..(i - 1) : Token(ls[j]) # Token(ls[i])}

\* C21: for a document without a legacy line every desired code is the token
\* of exactly one line of the result: of the lines that hold a code only the
\* first stays, where it was, and only the codes that no line holds are
\* appended, each once.
C21_EachCodeOnce ==
    (stage >= 1 /\ ~HasLegacy(lines)) =>
        LET kept == Restrict(lines, Survivors(lines, codes), 1)
            out == first.lines
            appended == SubSeq(out, Len(kept) + 1, Len(out))
        IN /\ \A c \in codes :
                Cardinality({i \in 1..Len(out) : Token(out[i]) = c}) = 1
           /\ Len(out) >= Len(kept)
           /\ SubSeq(out, 1, Len(kept)) = kept
           /\ Len(appended) = Cardinality(codes \ CodeTokens(lines))
           /\ \A i \in 1..Len(appended) :
                \E c \in codes \ CodeTokens(lines) : appended[i] = c \o <<NL>>

\* C21 witness: a desired code on two lines, of which the call kept the first.
C21_Witness ==
    /\ stage = 1
    /\ ~HasLegacy(lines)
    /\ \E i, j \in 1..Len(lines) :
         /\ i < j
         /\ Token(lines[i]) \in codes
         /\ Token(lines[j]) = Token(lines[i])
         /\ lines[i] # lines[j]
         /\ lines[i] \in Range(first.lines)
         /\ lines[j] \notin Range(first.lines)
    /\ first.changed

\* ------------------------------------------ claims about the temporary file
\* The run created a temporary file; the file it created.
CreatedTmp(r) == r.addon = "xgettext" /\ "mktemp" \in Range(r.trace)
TmpOf(r) == r.trace[1 + CHOOSE i \in 1..Len(r.trace) : r.trace[i] = "mktemp"]

\* C22: the temporary file of an xgettext run is created in the directory of
\* the template and is gone when the run has ended, whether the tool failed,
\* the output was materially unchanged or the output was promoted; no
\* temporary file is ever left in the working tree.
C22_TmpNeverOutlivesRun ==
    /\ present \cap TemporaryFiles = {}
    /\ CreatedTmp(run) =>
         /\ run.outcome \in {"tool_failed", "unchanged", "promoted"}
         /\ TmpOf(run) \in TemporaryFiles
         /\ dirname(TmpOf(run)) = dirname(TemplatePath)
         /\ TmpOf(run) \notin present
    /\ (run.addon = "xgettext" /\ run.invoked # <<>>) => CreatedTmp(run)

\* C22 witness: a run whose output was materially unchanged: the temporary
\* file was created, the template was kept and no temporary file is left.
C22_Witness ==
    /\ CreatedTmp(run)
    /\ ToolSucceeded(run)
    /\ ~Replaced(run)
    /\ TmpOf(run) \notin present
    /\ present = run.existed

====
